---- MODULE Spec2Model ----
(***************************************************************************)
(* A model of tecplot_tools.hdf.create_hdf5: the conversion of a mapping   *)
(* of named arrays into an HDF5 container (one group per time step when a  *)
(* time axis is given) and a companion Tecplot macro file.                 *)
(*                                                                         *)
(* Text is modelled as a sequence of characters (paths) or of tokens (the  *)
(* macro); an array is a shape with a base value, its element at index idx *)
(* being base + the row-major offset of idx, so that every element of an   *)
(* array is distinct and a slice can be told from any other slice.         *)
(***************************************************************************)
EXTENDS Integers, Sequences, FiniteSets, TLC

VARIABLES
    pc,              \* position of the invocation in create_hdf5
    args,            \* the arguments of the current invocation
    filename,        \* local: the absolute container path
    max_rank,        \* local
    nt,              \* local: <<>> while unbound, <<n>> once assigned
    it,              \* local: loop index of the transient write loop
    h5open,          \* the h5py.File handle is open
    macro_str,       \* local: the macro text (sequence of tokens)
    macro_filename,  \* local: <<>> while unbound, else the macro path
    fs,              \* the file system: path -> file
    fs0,             \* the file system as the current invocation found it
    result,          \* the returned tuple, <<>> when nothing was returned
    err,             \* the exception that ended the invocation, "" if none
    errPhase,        \* the phase in which that exception was raised
    ncalls           \* number of invocations started

vars == <<pc, args, filename, max_rank, nt, it, h5open, macro_str,
          macro_filename, fs, fs0, result, err, errPhase, ncalls>>

-----------------------------------------------------------------------------
(* Bounds of the model *)

\* largest length of an array axis
MaxDim == 2
\* number of invocations of create_hdf5 in one behaviour
MaxCalls == 2
\* longest container path (in characters) of the path specification
MaxPathLen == 8

(* Constants of the program *)

\* line 52: if max_rank > 4
RankLimit == 4
\* line 63: if data.ndim == 4
SliceRank == 4

-----------------------------------------------------------------------------
(* Python values *)

\* an unbound local / the value None
Unbound == <<>>
Bound(x) == <<x>>
IsBound(v) == v # <<>>
Val(v) == v[1]

\* seq[i] of a Python sequence of length n is defined for -n <= i < n
PyIndexOk(n, i) == (-n <= i) /\ (i < n)
\* the 0-based position seq[i] reads
PyIndex(n, i) == IF i < 0 THEN i + n ELSE i

\* the decimal digits of n >= 0, as f'{n}' formats them
RECURSIVE Digits(_)
Digits(n) ==
    LET d == <<"0", "1", "2", "3", "4", "5", "6", "7", "8", "9">>
    IN  IF n < 10 THEN <<d[n + 1]>> ELSE Digits(n \div 10) \o <<d[(n % 10) + 1]>>

-----------------------------------------------------------------------------
(* numpy arrays *)

\* the array of the given shape whose element at idx is base + offset(idx)
MkArray(shape, base) == [shape |-> shape, base |-> base]

Ndim(a) == Len(a.shape)

\* the index tuples of an array of the given shape (0-based, as in numpy)
Indices(shape) ==
    LET lens == {shape[k] : k \in 1..Len(shape)}
        m == IF lens = {} THEN 0 ELSE CHOOSE x \in lens : \A y \in lens : y <= x
    IN  {idx \in [1..Len(shape) -> 0..m] :
            \A k \in 1..Len(shape) : idx[k] < shape[k]}

\* row-major (C order) offset of idx in an array of the given shape
RECURSIVE Ravel(_, _)
Ravel(shape, idx) ==
    IF Len(shape) = 0 THEN 0
    ELSE Ravel(SubSeq(shape, 1, Len(shape) - 1), SubSeq(idx, 1, Len(idx) - 1))
            * shape[Len(shape)] + idx[Len(idx)]

Elem(a, idx) == a.base + Ravel(a.shape, idx)

\* the dataset h5py stores for data=a (and for data=a[:]): shape and elements
Materialize(a) ==
    [shape |-> a.shape, data |-> [idx \in Indices(a.shape) |-> Elem(a, idx)]]

\* sequence s without its element at 1-based position p
RemoveAt(s, p) == SubSeq(s, 1, p - 1) \o SubSeq(s, p + 1, Len(s))
\* sequence s with x inserted so that it stands at 1-based position p
InsertAt(s, p, x) == SubSeq(s, 1, p - 1) \o <<x>> \o SubSeq(s, p, Len(s))

\* np.take(a, i, axis=axis) raises unless the axis and the index exist
NpTakeOk(a, i, axis) ==
    /\ PyIndexOk(Ndim(a), axis)
    /\ PyIndexOk(a.shape[PyIndex(Ndim(a), axis) + 1], i)

\* np.take(a, i, axis=axis): the slice at index i along axis, rank reduced by 1
NpTake(a, i, axis) ==
    LET p == PyIndex(Ndim(a), axis) + 1
        shape == RemoveAt(a.shape, p)
        j == PyIndex(a.shape[p], i)
    IN  [shape |-> shape,
         data  |-> [idx \in Indices(shape) |-> Elem(a, InsertAt(idx, p, j))]]

-----------------------------------------------------------------------------
(* str and pathlib: a string is a sequence of one-character strings *)

\* s[i:] for a 0-based i in 0..Len(s)
From(s, i) == SubSeq(s, i + 1, Len(s))

\* s.startswith(old) at the 0-based offset i
MatchAt(s, old, i) ==
    /\ i + Len(old) <= Len(s)
    /\ SubSeq(s, i + 1, i + Len(old)) = old

\* s[i:].replace(old, new) for a non-empty old: leftmost matches, not overlapping
RECURSIVE ReplaceFrom(_, _, _, _)
ReplaceFrom(s, old, new, i) ==
    IF i >= Len(s) THEN <<>>
    ELSE IF MatchAt(s, old, i) THEN new \o ReplaceFrom(s, old, new, i + Len(old))
    ELSE <<s[i + 1]>> \o ReplaceFrom(s, old, new, i + 1)

\* s.replace('', new): new before every character and at the end
RECURSIVE Interleave(_, _, _)
Interleave(s, new, i) ==
    IF i >= Len(s) THEN new
    ELSE new \o <<s[i + 1]>> \o Interleave(s, new, i + 1)

\* str.replace(old, new): every occurrence of old is replaced
StrReplace(s, old, new) ==
    IF old = <<>> THEN Interleave(s, new, 0) ELSE ReplaceFrom(s, old, new, 0)

\* s.rfind(c): the 0-based position of the last c in s, -1 if there is none
RFind(s, c) ==
    LET at == {i \in 1..Len(s) : s[i] = c}
    IN  IF at = {} THEN -1 ELSE (CHOOSE i \in at : \A j \in at : j <= i) - 1

\* PurePath.name: the final component of a normalised path
PathName(p) == From(p, RFind(p, "/") + 1)

\* PurePath.suffix: the final component's last dot and what follows it,
\* '' when there is no dot, the only dot leads the name, or the name ends in it
PathSuffix(p) ==
    LET name == PathName(p)
        i == RFind(name, ".")
    IN  IF 0 < i /\ i < Len(name) - 1 THEN From(name, i) ELSE <<>>

\* PurePath.parent of a normalised path, as text: what precedes the last "/"
PathParent(p) == SubSeq(p, 1, RFind(p, "/"))

\* the working directory of the process
Cwd == <<"/", "w">>

\* Path(filename).absolute(): a relative path is joined to the working directory
Absolute(p) == IF p[1] = "/" THEN p ELSE Cwd \o <<"/">> \o p

\* the macro extension
McrExt == <<".", "m", "c", "r">>

\* lines 121-122: str(filename).replace(filename.suffix, '.mcr')
MacroFilename(p) == StrReplace(p, PathSuffix(p), McrExt)

-----------------------------------------------------------------------------
(* The macro text: a sequence of tokens, each a kind and its characters *)

\* literal text of the template
Lit(s) == [t |-> "lit", v |-> <<s>>]
\* "{n}" followed by a blank: a quoted decimal number
QNum(n) == [t |-> "qnum", v |-> Digits(n)]
\* {n}: a decimal number
Num(n) == [t |-> "num", v |-> Digits(n)]
\* "/Z{it}/" followed by a blank
ZoneTok(i) == [t |-> "zone", v |-> Digits(i)]
\* "{vname}" followed by a blank
VarTok(vname) == [t |-> "var", v |-> <<vname>>]
\* "{filename}" followed by a blank
QPathTok(p) == [t |-> "qpath", v |-> p]
\* {filename}
PathTok(p) == [t |-> "path", v |-> p]

\* the zones numbered from 1
RECURSIVE StrZonesFromOne(_)
StrZonesFromOne(n) ==
    IF n = 0 THEN <<>> ELSE StrZonesFromOne(n - 1) \o <<ZoneTok(n)>>

\* lines 72-75: str_zones
RECURSIVE StrZones(_)
StrZones(n) == IF n = 0 THEN <<>> ELSE StrZones(n - 1) \o <<ZoneTok(n - 1)>>

\* the names in reverse order
RECURSIVE StrVariableReversed(_)
StrVariableReversed(varnames) ==
    IF varnames = <<>> THEN <<>>
    ELSE StrVariableReversed(Tail(varnames)) \o <<VarTok(Head(varnames))>>

\* lines 77-79: str_variable
RECURSIVE StrVariable(_)
StrVariable(varnames) ==
    IF varnames = <<>> THEN <<>>
    ELSE <<VarTok(Head(varnames))>> \o StrVariable(Tail(varnames))

\* line 82: f'"{filename}" ' * nt
RECURSIVE StrFilename(_, _)
StrFilename(p, n) == IF n = 0 THEN <<>> ELSE <<QPathTok(p)>> \o StrFilename(p, n - 1)

ReadDataSet == Lit("$!READDATASET  '")
FlagF == Lit("\"-F\" ")
FlagD == Lit("\"-D\" ")
FlagG == Lit("\"-G\" ")
FlagK == Lit("\"-K\" \"1\" \"1\" \"1\"'\n")
Blank == Lit(" ")

\* the loader options and the axis assignment shared by both templates
LoaderLines ==
    <<Lit("  DATASETREADER = 'HDF5 Loader'\n"),
      Lit("  READDATAOPTION = NEW\n"),
      Lit("  RESETSTYLE = YES\n"),
      Lit("  ASSIGNSTRANDIDS = NO\n"),
      Lit("  INITIALPLOTTYPE = CARTESIAN3D\n"),
      Lit("  INITIALPLOTFIRSTZONEONLY = NO\n"),
      Lit("  ADDZONESTOEXISTINGSTRANDS = NO\n"),
      Lit("  VARLOADMODE = BYNAME\n"),
      Lit("$!THREEDAXIS XDETAIL{VARNUM = 1}\n"),
      Lit("$!THREEDAXIS YDETAIL{VARNUM = 2}\n"),
      Lit("$!THREEDAXIS ZDETAIL{VARNUM = 3}\n")>>

\* lines 83-102: the macro of transient data
MacroTransient(p, n, varnames, tstart, dt) ==
    <<Lit("#!MC 1410\n"), ReadDataSet, FlagF, QNum(n)>> \o StrFilename(p, n)
    \o <<FlagD, QNum(n)>> \o StrZones(n)
    \o <<FlagG, QNum(Len(varnames)), Blank>> \o StrVariable(varnames)
    \o <<Blank, FlagK>> \o LoaderLines
    \o <<Lit("$!EXTENDEDCOMMAND\n   COMMANDPROCESSORID = 'Strand Editor'\n"),
         Lit("COMMAND = 'ZoneSet=1-"), Num(n),
         Lit(";MultiZonesPerTime=TRUE;ZoneGrouping=Time;GroupSize="), Num(n),
         Lit(";AssignStrands=TRUE;StrandValue="), Num(n),
         Lit(";AssignSolutionTime=TRUE;TimeValue="), Num(tstart),
         Lit(";DeltaValue="), Num(dt),
         Lit(";TimeOption=Automatic;'")>>

\* lines 105-119: the macro of static data
MacroStatic(p, varnames) ==
    <<Lit("#!MC 1410\n"), ReadDataSet, FlagF, QNum(1), PathTok(p), Blank>>
    \o <<FlagD, QNum(Len(varnames)), Blank>> \o StrVariable(varnames)
    \o <<Blank, FlagK>> \o LoaderLines

-----------------------------------------------------------------------------
(* Files *)

NoFiles == [p \in {} |-> 0]

\* a container: the datasets it holds, each under a group <<it>> (the group
\* named Z{it}) or under <<>> (the top level)
H5File(entries) == [kind |-> "h5", entries |-> entries, text |-> <<>>]
TextFile(text) == [kind |-> "text", entries |-> {}, text |-> text]

\* the file system with the file at path p created or replaced
Put(f, p, file) == [q \in (DOMAIN f) \cup {p} |-> IF q = p THEN file ELSE f[q]]

\* h5.create_dataset(name, data=...) under the group
Dataset(group, name, stored) ==
    [group |-> group, name |-> name, shape |-> stored.shape, data |-> stored.data]

-----------------------------------------------------------------------------
(* The locals computed by lines 43-57 *)

Ranks(variables) == {Ndim(variables[k].data) : k \in 1..Len(variables)}

\* np.max(all_rank) of a non-empty list
MaxRank(variables) ==
    CHOOSE r \in Ranks(variables) : \A q \in Ranks(variables) : q <= r

IsTransient(a) == a.taxis # Unbound

VarNames(variables) == [k \in 1..Len(variables) |-> variables[k].name]

\* lines 47-50 raise IndexError when v.shape[taxis] does not exist
NtRaises(a) ==
    /\ IsTransient(a)
    /\ ~PyIndexOk(MaxRank(a.variables), Val(a.taxis))

\* nt read along the first axis, whatever taxis is
NtOfFirstAxis(a) ==
    LET mr == MaxRank(a.variables)
        at == {k \in 1..Len(a.variables) : Ndim(a.variables[k].data) = mr}
        last == CHOOSE k \in at : \A j \in at : j <= k
    IN  a.variables[last].data.shape[1]

\* lines 47-50: nt is v.shape[taxis] of the last variable of maximum rank
NtOf(a) ==
    LET mr == MaxRank(a.variables)
        at == {k \in 1..Len(a.variables) : Ndim(a.variables[k].data) = mr}
        last == CHOOSE k \in at : \A j \in at : j <= k
    IN  a.variables[last].data.shape[PyIndex(mr, Val(a.taxis)) + 1]

\* the exception lines 43-54 raise, "" when they raise none
ValidationError(a) ==
    IF a.variables = <<>> THEN "ValueError: zero-size array"
    ELSE IF NtRaises(a) THEN "IndexError: tuple index out of range"
    ELSE IF MaxRank(a.variables) > RankLimit THEN "ValueError: Max. rank is 4"
    ELSE ""

-----------------------------------------------------------------------------
(* The write loop, lines 61-67 *)

\* line 63: the variable is sliced along the time axis
IsSliced(data) == Ndim(data) = SliceRank

\* the variable raises in np.take at step i
TakeRaises(a, i, k) ==
    /\ IsSliced(a.variables[k].data)
    /\ ~NpTakeOk(a.variables[k].data, i, Val(a.taxis))

\* lines 63-67: the dataset of variable k in group Z{i}
ZoneDataset(a, i, k) ==
    LET v == a.variables[k]
    IN  Dataset(<<i>>, v.name,
                IF IsSliced(v.data) THEN NpTake(v.data, i, Val(a.taxis))
                ELSE Materialize(v.data))

\* the variables written at step i: all, or those before the first that raises
ZoneWritten(a, i) ==
    LET bad == {k \in 1..Len(a.variables) : TakeRaises(a, i, k)}
    IN  IF bad = {} THEN 1..Len(a.variables)
        ELSE 1..((CHOOSE k \in bad : \A j \in bad : k <= j) - 1)

\* data[0] stored in place of data[:]
StaticDatasetsFirstRow(a) ==
    {Dataset(<<>>, a.variables[k].name, NpTake(a.variables[k].data, 0, 0)) :
        k \in 1..Len(a.variables)}

\* lines 69-70: the top-level datasets of static data
StaticDatasets(a) ==
    {Dataset(<<>>, a.variables[k].name, Materialize(a.variables[k].data)) :
        k \in 1..Len(a.variables)}

-----------------------------------------------------------------------------
(* The inputs of the invocations *)

Names == {"X", "T"}

\* the shapes of rank r: one length along the first axis, which may be empty,
\* and one along the others
ShapesOfRank(r) ==
    {[k \in 1..r |-> IF k = 1 THEN a ELSE b] : a \in 0..MaxDim, b \in 1..MaxDim}

\* arrays of every rank up to one above the rank limit
Shapes == UNION {ShapesOfRank(r) : r \in 1..(RankLimit + 1)}

\* the shapes of the repeated invocations: rank 2 and rank 4 with every length
\* along the first axis, and one shape above the rank limit
LifeShapes ==
    {[k \in 1..r |-> IF k = 1 THEN a ELSE 1] : a \in 1..MaxDim, r \in {2, RankLimit}}
    \cup {[k \in 1..(RankLimit + 1) |-> 1]}

\* the ordered mappings of n distinct names to arrays of the given shapes;
\* the k-th array holds the values 1000 * k, 1000 * k + 1, ...
VarSetsOf(n, shapes) ==
    {[k \in 1..n |-> [name |-> ns[k], data |-> MkArray(ss[k], 1000 * k)]] :
        ns \in {f \in [1..n -> Names] : \A i, j \in 1..n : i # j => f[i] # f[j]},
        ss \in [1..n -> shapes]}

VarSets == VarSetsOf(0, Shapes) \cup VarSetsOf(1, Shapes) \cup VarSetsOf(2, Shapes)

LifeVarSets ==
    VarSetsOf(0, LifeShapes) \cup VarSetsOf(1, LifeShapes)
    \cup VarSetsOf(2, {s \in LifeShapes : Len(s) = RankLimit})

\* taxis: None, or an axis index, in range or not
TaxisValues == {Unbound} \cup {Bound(k) : k \in (-1)..(RankLimit + 1)}
LifeTaxisValues == {Unbound, Bound(0), Bound(RankLimit + 1)}

\* a container name relative to the working directory
H5Name == <<"t", ".", "h", "5">>

Args(f, v, tx, wm) ==
    [filename |-> f, variables |-> v, taxis |-> tx, tstart |-> 0, dt |-> 1,
     write_macro |-> wm]

LifeInputs ==
    {Args(H5Name, v, tx, wm) :
        v \in LifeVarSets, tx \in LifeTaxisValues, wm \in BOOLEAN}

DataInputs ==
    {Args(H5Name, v, tx, wm) : v \in VarSets, tx \in TaxisValues, wm \in BOOLEAN}

\* the path strings pathlib leaves as they are: no empty component, no
\* component "." or "..", no trailing separator
PathChars == {"/", ".", "a"}
IsNormalPath(p) ==
    /\ Len(p) > 0
    /\ p[Len(p)] # "/"
    /\ \A i \in 1..(Len(p) - 1) : ~(p[i] = "/" /\ p[i + 1] = "/")
    /\ \A i \in 1..Len(p) :
          (p[i] = "." /\ (i = 1 \/ p[i - 1] = "/"))
              => /\ i < Len(p)
                 /\ p[i + 1] # "/"
                 /\ (p[i + 1] = "." => (i + 1 < Len(p) /\ p[i + 2] # "/"))

NormalPaths ==
    UNION {{p \in [1..n -> PathChars] : IsNormalPath(p)} : n \in 1..MaxPathLen}

PathInputs ==
    {Args(f, v, Unbound, TRUE) : f \in NormalPaths, v \in VarSetsOf(1, {<<1>>})}

-----------------------------------------------------------------------------
(* create_hdf5, step by step *)

Locals0 ==
    /\ filename = <<>>
    /\ max_rank = 0
    /\ nt = Unbound
    /\ it = 0
    /\ h5open = FALSE
    /\ macro_str = <<>>
    /\ macro_filename = Unbound
    /\ result = <<>>
    /\ err = ""
    /\ errPhase = ""

InitOver(inputs) ==
    /\ pc = "Start"
    /\ args \in inputs
    /\ Locals0
    /\ fs = NoFiles
    /\ fs0 = NoFiles
    /\ ncalls = 1

\* the phase of the invocation a position belongs to
Phase(at) ==
    CASE at = "Start" -> "Start"
      [] at = "Validating" -> "Validating"
      [] at \in {"Opening", "Writing", "Closing"} -> "Writing"
      [] at = "Building" -> "MacroBuilding"
      [] at = "MacroWriting" -> "MacroWriting"
      [] at = "Returning" -> "Returning"
      [] at = "Done" -> "Done"
      [] at = "Failed" -> "Failed"

\* an exception leaves create_hdf5
Raise(e) ==
    /\ pc' = "Failed"
    /\ err' = e
    /\ errPhase' = Phase(pc)

\* a further invocation, after the previous one has returned or raised
Call ==
    /\ pc \in {"Done", "Failed"}
    /\ ncalls < MaxCalls
    /\ ncalls' = ncalls + 1
    /\ pc' = "Start"
    /\ args' \in LifeInputs
    /\ filename' = <<>>
    /\ max_rank' = 0
    /\ nt' = Unbound
    /\ it' = 0
    /\ macro_str' = <<>>
    /\ macro_filename' = Unbound
    /\ result' = <<>>
    /\ err' = ""
    /\ errPhase' = ""
    /\ fs0' = fs
    /\ UNCHANGED <<h5open, fs>>

\* line 41
Enter ==
    /\ pc = "Start"
    /\ filename' = Absolute(args.filename)
    /\ pc' = "Validating"
    /\ UNCHANGED <<args, max_rank, nt, it, h5open, macro_str, macro_filename,
                   fs, fs0, result, err, errPhase, ncalls>>

\* lines 43-57
Validate ==
    /\ pc = "Validating"
    /\ IF ValidationError(args) # ""
       THEN /\ Raise(ValidationError(args))
            /\ UNCHANGED <<max_rank, nt>>
       ELSE /\ max_rank' = MaxRank(args.variables)
            /\ nt' = IF IsTransient(args) THEN Bound(NtOf(args)) ELSE Unbound
            /\ pc' = "Opening"
            /\ UNCHANGED <<err, errPhase>>
    /\ UNCHANGED <<args, filename, it, h5open, macro_str, macro_filename, fs,
                   fs0, result, ncalls>>

\* the file opened without truncation (mode 'a')
OpenH5Append ==
    /\ pc = "Opening"
    /\ fs' = IF filename \in DOMAIN fs /\ fs[filename].kind = "h5"
             THEN fs ELSE Put(fs, filename, H5File({}))
    /\ h5open' = TRUE
    /\ it' = 0
    /\ pc' = IF IsTransient(args) /\ Val(nt) = 0 THEN "Closing" ELSE "Writing"
    /\ UNCHANGED <<args, filename, max_rank, nt, macro_str, macro_filename,
                   fs0, result, err, errPhase, ncalls>>

\* line 59: h5py.File(filename, 'w') creates the file or truncates it
OpenH5 ==
    /\ pc = "Opening"
    /\ fs' = Put(fs, filename, H5File({}))
    /\ h5open' = TRUE
    /\ it' = 0
    /\ pc' = IF IsTransient(args) /\ Val(nt) = 0 THEN "Closing" ELSE "Writing"
    /\ UNCHANGED <<args, filename, max_rank, nt, macro_str, macro_filename,
                   fs0, result, err, errPhase, ncalls>>

\* lines 61-67: one step of the loop over range(nt); an exception closes the
\* file on its way out of the with block
WriteZone ==
    /\ pc = "Writing"
    /\ IsTransient(args)
    /\ it < Val(nt)
    /\ fs' = Put(fs, filename,
                 H5File(fs[filename].entries
                        \cup {ZoneDataset(args, it, k) : k \in ZoneWritten(args, it)}))
    /\ IF ZoneWritten(args, it) # 1..Len(args.variables)
       THEN /\ Raise("IndexError: index out of bounds")
            /\ h5open' = FALSE
            /\ it' = it
       ELSE /\ it' = it + 1
            /\ pc' = IF it + 1 = Val(nt) THEN "Closing" ELSE "Writing"
            /\ UNCHANGED <<h5open, err, errPhase>>
    /\ UNCHANGED <<args, filename, max_rank, nt, macro_str, macro_filename,
                   fs0, result, ncalls>>

\* lines 69-70
WriteStatic ==
    /\ pc = "Writing"
    /\ ~IsTransient(args)
    /\ fs' = Put(fs, filename,
                 H5File(fs[filename].entries \cup StaticDatasets(args)))
    /\ pc' = "Closing"
    /\ UNCHANGED <<args, filename, max_rank, nt, it, h5open, macro_str,
                   macro_filename, fs0, result, err, errPhase, ncalls>>

\* the end of the with block of line 59
CloseH5 ==
    /\ pc = "Closing"
    /\ h5open' = FALSE
    /\ pc' = "Building"
    /\ UNCHANGED <<args, filename, max_rank, nt, it, macro_str, macro_filename,
                   fs, fs0, result, err, errPhase, ncalls>>

\* lines 72-120
BuildMacro ==
    /\ pc = "Building"
    /\ macro_str' =
          IF IsTransient(args)
          THEN MacroTransient(filename, Val(nt), VarNames(args.variables),
                              args.tstart, args.dt)
          ELSE MacroStatic(filename, VarNames(args.variables))
    /\ pc' = IF args.write_macro THEN "MacroWriting" ELSE "Returning"
    /\ UNCHANGED <<args, filename, max_rank, nt, it, h5open, macro_filename,
                   fs, fs0, result, err, errPhase, ncalls>>

\* lines 121-124: open(macro_filename, 'w') creates the file or truncates it
WriteMacro ==
    /\ pc = "MacroWriting"
    /\ macro_filename' = MacroFilename(filename)
    /\ fs' = Put(fs, MacroFilename(filename), TextFile(macro_str))
    /\ pc' = "Returning"
    /\ UNCHANGED <<args, filename, max_rank, nt, it, h5open, macro_str,
                   fs0, result, err, errPhase, ncalls>>

\* lines 121-123: open(macro_filename, 'w') raises when the directory of the
\* macro path does not exist; the directory of the container exists, any
\* other may or may not
WriteMacroFails ==
    /\ pc = "MacroWriting"
    /\ PathParent(MacroFilename(filename)) # PathParent(filename)
    /\ macro_filename' = MacroFilename(filename)
    /\ Raise("FileNotFoundError")
    /\ UNCHANGED <<args, filename, max_rank, nt, it, h5open, macro_str,
                   fs, fs0, result, ncalls>>

\* line 125: Path(macro_filename) reads a local that is bound by line 122 only
Return ==
    /\ pc = "Returning"
    /\ IF IsBound(macro_filename)
       THEN /\ result' = <<filename, macro_filename>>
            /\ pc' = "Done"
            /\ UNCHANGED <<err, errPhase>>
       ELSE /\ Raise("UnboundLocalError: macro_filename")
            /\ UNCHANGED result
    /\ UNCHANGED <<args, filename, max_rank, nt, it, h5open, macro_str,
                   macro_filename, fs, fs0, ncalls>>

-----------------------------------------------------------------------------
(* Specifications *)

\* repeated invocations on one container path
Init == InitOver(LifeInputs)

Next ==
    \/ Call
    \/ Enter
    \/ Validate
    \/ OpenH5
    \/ WriteZone
    \/ WriteStatic
    \/ CloseH5
    \/ BuildMacro
    \/ WriteMacro
    \/ Return

Spec == Init /\ [][Next]_vars

\* one invocation, over arrays of every shape
InitData == InitOver(DataInputs)

NextData ==
    \/ Enter
    \/ Validate
    \/ OpenH5
    \/ WriteZone
    \/ WriteStatic
    \/ CloseH5
    \/ BuildMacro
    \/ WriteMacro
    \/ Return

SpecData == InitData /\ [][NextData]_vars

\* one invocation on static data, over every container path
InitPath == InitOver(PathInputs)

NextPath ==
    \/ Enter
    \/ Validate
    \/ OpenH5
    \/ WriteStatic
    \/ CloseH5
    \/ BuildMacro
    \/ WriteMacro
    \/ WriteMacroFails
    \/ Return

SpecPath == InitPath /\ [][NextPath]_vars

-----------------------------------------------------------------------------
(* What the properties speak of *)

\* the write phase of the current invocation has completed
Written ==
    \/ pc \in {"Building", "MacroWriting", "Returning", "Done"}
    \/ pc = "Failed" /\ errPhase = "Returning"

\* the datasets of the container of the current invocation
Entries == fs[filename].entries

NVars == Len(args.variables)
NameSet == {args.variables[k].name : k \in 1..NVars}

\* the variables of maximum rank and their lengths along the time axis
MaxRankVars == {k \in 1..NVars : Ndim(args.variables[k].data) = max_rank}
TimeAxis == PyIndex(max_rank, Val(args.taxis)) + 1
StepsOf(k) == args.variables[k].data.shape[TimeAxis]

\* dataset e holds the elements of array a at index i along its axis p
IsSliceOf(e, a, p, i) ==
    /\ e.shape = RemoveAt(a.shape, p)
    /\ DOMAIN e.data = Indices(e.shape)
    /\ \A idx \in Indices(e.shape) : e.data[idx] = Elem(a, InsertAt(idx, p, i))

\* dataset e holds array a, element by element
IsCopyOf(e, a) ==
    /\ e.shape = a.shape
    /\ DOMAIN e.data = Indices(a.shape)
    /\ \A idx \in Indices(a.shape) : e.data[idx] = Elem(a, idx)

\* the positions of the macro text holding the token, or a token of the kind
TokenAt(tok) == {i \in 1..Len(macro_str) : macro_str[i] = tok}
KindAt(kind) == {i \in 1..Len(macro_str) : macro_str[i].t = kind}

\* the container path with its final suffix replaced by .mcr
SiblingMcr(p) == SubSeq(p, 1, Len(p) - Len(PathSuffix(p))) \o McrExt

PhaseRank(ph) ==
    CASE ph = "Start" -> 0
      [] ph = "Validating" -> 1
      [] ph = "Writing" -> 2
      [] ph = "MacroBuilding" -> 3
      [] ph = "MacroWriting" -> 4
      [] ph = "Returning" -> 5
      [] ph \in {"Done", "Failed"} -> 6

-----------------------------------------------------------------------------
(* Properties *)

\* C1: after the write phase of a transient invocation, every variable whose
\* rank is the maximum rank is stored in each group Z<i>, i in 0..nt-1, as the
\* input array sliced at index i along the time axis, its rank reduced by one.
C1_MaxRankSliced ==
    (Written /\ IsTransient(args)) =>
        \A k \in MaxRankVars : \A i \in 0..(Val(nt) - 1) :
            \E e \in Entries :
                /\ e.group = <<i>>
                /\ e.name = args.variables[k].name
                /\ IsSliceOf(e, args.variables[k].data, TimeAxis, i)

\* C2: with write_macro=False the invocation, once the container is written,
\* skips the macro, writes no file and returns the container path with no
\* macro path.
C2_NoMacroReturns ==
    [][(~args.write_macro /\ pc \in {"Building", "Returning"}) =>
          /\ pc' \in {"Returning", "Done"}
          /\ fs' = fs
          /\ (pc = "Returning" => pc' = "Done" /\ result' = <<filename, Unbound>>)]_vars

\* C3: an invocation with a variable of rank above 4 touches no file and ends
\* its validation with the rank error, whatever the time axis is.
C3_RankErrorBeforeIO ==
    [][(\E k \in 1..NVars : Ndim(args.variables[k].data) > RankLimit) =>
          /\ fs' = fs
          /\ (pc = "Validating" =>
                  pc' = "Failed" /\ err' = "ValueError: Max. rank is 4")]_vars

\* C4: the macro is written beside the container, to the container path with
\* only its final suffix replaced by .mcr.
C4_MacroIsSibling ==
    (pc \in {"Returning", "Done", "Failed"} /\ IsBound(macro_filename)) =>
        /\ macro_filename = SiblingMcr(filename)
        /\ SiblingMcr(filename) \in DOMAIN fs
        /\ fs[SiblingMcr(filename)].kind = "text"

\* C5: after the write phase of a transient invocation the container holds
\* exactly the groups Z0..Z(nt-1), nt being the length of the arrays of
\* maximum rank along the time axis, nothing at top level beside them, and in
\* each group exactly one dataset per variable, named as the variable.
C5_TransientLayout ==
    (Written /\ IsTransient(args)) =>
        \E k \in MaxRankVars :
            /\ {e.group : e \in Entries} = {<<i>> : i \in 0..(StepsOf(k) - 1)}
            /\ \A i \in 0..(StepsOf(k) - 1) :
                  LET inGroup == {e \in Entries : e.group = <<i>>}
                  IN  /\ {e.name : e \in inGroup} = NameSet
                      /\ Cardinality(inGroup) = NVars

C5_Witness ==
    /\ pc = "Done"
    /\ IsTransient(args)
    /\ NVars = 2
    /\ Val(nt) = 2
    /\ Cardinality(Entries) = 4
    /\ \E k \in 1..NVars : k \notin MaxRankVars

\* C6: after the write phase of a static invocation the container holds
\* exactly one top-level dataset per variable, named as the variable and equal
\* to the input array element by element, and nothing else.
C6_StaticLayout ==
    (Written /\ ~IsTransient(args)) =>
        /\ \A e \in Entries : e.group = <<>>
        /\ Cardinality(Entries) = NVars
        /\ \A k \in 1..NVars :
              \E e \in Entries :
                  /\ e.name = args.variables[k].name
                  /\ IsCopyOf(e, args.variables[k].data)

C6_Witness ==
    /\ pc = "Done"
    /\ ~IsTransient(args)
    /\ NVars = 2
    /\ Ndim(args.variables[1].data) # Ndim(args.variables[2].data)
    /\ Cardinality(Entries) = 2

\* C7: the READDATASET line of the transient macro gives nt as the -F count,
\* then the container path exactly nt times, then nt as the -D count, then
\* the group paths /Z0/ ... /Z(nt-1)/ in increasing order, and no other.
C7_TransientMacro ==
    (pc \in {"MacroWriting", "Returning", "Done"} /\ IsTransient(args)) =>
        LET n == Cardinality({e.group : e \in Entries})
        IN  \E r \in TokenAt(ReadDataSet) : \E f \in TokenAt(FlagF) :
            \E d \in TokenAt(FlagD) : \E g \in TokenAt(FlagG) :
            \E q \in TokenAt(FlagK) :
                /\ r < f /\ g < q
                /\ macro_str[f + 1] = QNum(n)
                /\ d = f + n + 2
                /\ \A j \in 1..n : macro_str[f + 1 + j] = QPathTok(filename)
                /\ KindAt("qpath") = (f + 2)..(f + 1 + n)
                /\ macro_str[d + 1] = QNum(n)
                /\ g = d + n + 2
                /\ \A j \in 1..n : macro_str[d + 1 + j] = ZoneTok(j - 1)
                /\ KindAt("zone") = (d + 2)..(d + 1 + n)

C7_Witness ==
    /\ pc = "Done"
    /\ IsTransient(args)
    /\ Val(nt) = 2
    /\ Cardinality(KindAt("zone")) = 2
    /\ fs[macro_filename].text = macro_str

\* C8: the static macro holds exactly one READDATASET line; its -D count is
\* the number of variables and the variable names follow the count in the
\* insertion order of the mapping.
C8_StaticMacro ==
    (pc \in {"MacroWriting", "Returning", "Done"} /\ ~IsTransient(args)) =>
        /\ Cardinality(TokenAt(ReadDataSet)) = 1
        /\ Cardinality(TokenAt(FlagD)) = 1
        /\ \A d \in TokenAt(FlagD) :
              /\ macro_str[d + 1] = QNum(NVars)
              /\ \A k \in 1..NVars :
                    macro_str[d + 2 + k] = VarTok(args.variables[k].name)
              /\ KindAt("var") = (d + 3)..(d + 2 + NVars)
              /\ \E q \in TokenAt(FlagK) : q > d + 2 + NVars

C8_Witness ==
    /\ pc = "Done"
    /\ ~IsTransient(args)
    /\ NVars = 2
    /\ Cardinality(KindAt("var")) = 2
    /\ fs[macro_filename].text = macro_str

\* C9: when an invocation has returned, the container and the macro file hold
\* what this invocation wrote and nothing of an earlier one: the groups, the
\* datasets and the macro text are those of the current arguments.
C9_FreshArtifacts ==
    pc = "Done" =>
        /\ DOMAIN fs = {filename, macro_filename}
        /\ fs[filename].kind = "h5"
        /\ {e.name : e \in Entries} = NameSet
        /\ {e.group : e \in Entries} =
              IF IsTransient(args) THEN {<<i>> : i \in 0..(Val(nt) - 1)} ELSE {<<>>}
        /\ Cardinality(Entries) = IF IsTransient(args) THEN NVars * Val(nt) ELSE NVars
        /\ \A e \in Entries : \E k \in 1..NVars :
              /\ e.name = args.variables[k].name
              /\ \/ IsCopyOf(e, args.variables[k].data)
                 \/ /\ IsTransient(args)
                    /\ IsSliceOf(e, args.variables[k].data, TimeAxis, e.group[1])
        /\ fs[macro_filename] = TextFile(macro_str)
        /\ {macro_str[i].v[1] : i \in KindAt("var")} = NameSet
        /\ Cardinality(KindAt("zone")) = IF IsTransient(args) THEN Val(nt) ELSE 0

\* an invocation has returned on a path whose container and macro, written by
\* an earlier invocation, held other groups, other names and another text
C9_Witness ==
    /\ pc = "Done"
    /\ ncalls = 2
    /\ filename \in DOMAIN fs0
    /\ macro_filename \in DOMAIN fs0
    /\ {e.name : e \in fs0[filename].entries} \ NameSet # {}
    /\ {e.group : e \in fs0[filename].entries} \ {e.group : e \in Entries} # {}
    /\ fs0[macro_filename].text # macro_str
    /\ fs0[macro_filename].text # <<>>

\* C10: an invocation moves forward through Start, Validating, Writing, the
\* macro phase and Done; the container handle is closed when MacroWriting
\* begins; and it fails only out of Validating or Writing.
C10_PhaseOrder ==
    [][/\ (pc' # "Start" => PhaseRank(Phase(pc)) <= PhaseRank(Phase(pc')))
       /\ (pc' = "MacroWriting" => ~h5open')
       /\ (pc' = "Failed" => Phase(pc) \in {"Validating", "Writing", "Failed"})]_vars

====
